---- MODULE Spec2Model ----
(***************************************************************************)
(* Model of mypy_django_plugin_newsemanal/transformers/models.py: the      *)
(* class-definition transformers that inject synthetic members (default    *)
(* primary key, foreign-key shadow ids, managers) into a Django model      *)
(* class during mypy's semantic-analysis passes, and process_model_class,  *)
(* which drives them and turns IncompleteDefnException into defer().       *)
(***************************************************************************)
EXTENDS Integers, Sequences, FiniteSets, TLC

\* ------------------------------------------------------------------------
\* Bounds of the exploration
\* ------------------------------------------------------------------------
MaxPasses == 2
MaxFields == 2
MaxManagers == 2

\* ------------------------------------------------------------------------
\* Values
\* ------------------------------------------------------------------------
None == [none |-> TRUE]

NoException == "NoException"
IncompleteDefnException == "IncompleteDefnException"

\* runtime classes of the ORM, known by module and qualified name
AutoFieldCls == [module |-> "django.db.models.fields", name |-> "AutoField"]
UUIDFieldCls == [module |-> "django.db.models.fields", name |-> "UUIDField"]
ManagerCls == [module |-> "django.db.models.manager", name |-> "Manager"]
BookManagerCls == [module |-> "myapp.models", name |-> "BookManager"]

get_class_fullname(cls) == cls.module \o "." \o cls.name

\* the class definition being processed (ctx.cls); its TypeInfo is known by
\* its full name
ModelFullname == "myapp.models.Book"
ModelInfo == [kind |-> "TypeInfo", fullname |-> ModelFullname]

\* models a foreign key can point to, and the primary-key field of each
RelatedModels == {"myapp.models.Author", "myapp.models.Publisher"}

get_primary_key_field(related_model) ==
    IF related_model = "myapp.models.Author"
    THEN [cls |-> AutoFieldCls, null |-> FALSE]
    ELSE [cls |-> UUIDFieldCls, null |-> FALSE]

get_field_nullability(field) == field.null

\* attribute names of the i-th declared field
FKAttnames == <<"first_id", "second_id", "third_id", "fourth_id">>
PlainAttnames == <<"title", "isbn", "pages", "price">>
ManagerNames == <<"objects", "published", "archived", "drafts">>

PlainField(i) ==
    [isForeignKey |-> FALSE, attname |-> PlainAttnames[i], null |-> FALSE,
     related_model |-> "None"]

ForeignKeyField(i, rel, null) ==
    [isForeignKey |-> TRUE, attname |-> FKAttnames[i], null |-> null,
     related_model |-> rel]

\* what the i-th field of a model can be
FieldShapes(i) ==
    {PlainField(i),
     ForeignKeyField(i, "myapp.models.Author", FALSE),
     ForeignKeyField(i, "myapp.models.Publisher", TRUE)}

FieldSeqs ==
    UNION {{fs \in [1..n -> UNION {FieldShapes(i) : i \in 1..n}] :
                \A i \in 1..n : fs[i] \in FieldShapes(i)} : n \in 0..MaxFields}

ManagerSeqs ==
    UNION {{[i \in 1..n |-> [name |-> ManagerNames[i], cls |-> cs[i]]] :
                cs \in [1..n -> {ManagerCls, BookManagerCls}]} : n \in 1..MaxManagers}

AutoField == [attname |-> "id", cls |-> AutoFieldCls]

RuntimeModel(auto, fs, ms, d) ==
    [auto_field |-> auto, fields |-> fs, managers_map |-> ms,
     default_manager |-> ms[d]]

StdManagers == <<[name |-> "objects", cls |-> ManagerCls]>>

\* runtime models the reflection handle can return for the class
FieldModels ==
    {RuntimeModel(a, fs, StdManagers, 1) : a \in {None, AutoField}, fs \in FieldSeqs}

ManagerModels ==
    UNION {{RuntimeModel(AutoField, <<>>, ms, d) : d \in 1..Len(ms)} : ms \in ManagerSeqs}

\* full names the checker's global symbol table is asked about
Fullnames ==
    {get_class_fullname(c) : c \in {AutoFieldCls, UUIDFieldCls, ManagerCls, BookManagerCls}}

TypeInfoNode(fullname) == [kind |-> "TypeInfo", fullname |-> fullname]
VarNode(fullname) == [kind |-> "Var", fullname |-> fullname]
Nodes(fullname) == {None, TypeInfoNode(fullname), VarNode(fullname)}

\* a symbol the user wrote in the class body
DeclaredSymbol(name) ==
    [kind |-> "MDEF",
     node |-> [name |-> name,
               type |-> [info |-> "builtins.int", args |-> <<>>],
               info |-> ModelInfo,
               fullname |-> ModelFullname \o "." \o name,
               is_initialized_in_class |-> TRUE,
               is_inferred |-> FALSE],
     plugin_generated |-> FALSE]

DeclaredNames(S) == [n \in S |-> DeclaredSymbol(n)]

\* ------------------------------------------------------------------------
\* Lookup / injection facility (ModelClassInitializer)
\* ------------------------------------------------------------------------

\* outcome of a call: the value returned, or the exception raised
Returned(v) == [exc |-> NoException, node |-> v]
Raised(e) == [exc |-> e, node |-> None]

\* the lookup without the isinstance test: any bound symbol is returned
lookup_typeinfo_or_incomplete_defn_error_anyNode(st, fullname) ==
    LET sym == st[fullname]
    IN  IF sym = None
        THEN Raised(IncompleteDefnException)
        ELSE Returned(sym)

\* api.lookup_fully_qualified_or_none(fullname), then the TypeInfo test
lookup_typeinfo_or_incomplete_defn_error(st, fullname) ==
    LET sym == st[fullname]
    IN  IF sym = None \/ sym.kind # "TypeInfo"
        THEN Raised(IncompleteDefnException)
        ELSE Returned(sym)

lookup_field_typeinfo_or_incomplete_defn_error(st, field) ==
    LET fullname == get_class_fullname(field.cls)
    IN  lookup_typeinfo_or_incomplete_defn_error(st, fullname)

Instance(info, args) == [info |-> info.fullname, args |-> args]

\* fields.get_field_descriptor_types: the (set_type, get_type) pair of a
\* field's TypeInfo, made optional when the field is nullable
get_field_descriptor_types(field_info, is_nullable) ==
    <<[access |-> "set", of |-> field_info.fullname, optional |-> is_nullable],
      [access |-> "get", of |-> field_info.fullname, optional |-> is_nullable]>>

\* the injection assigning a fresh mapping instead of one entry
add_new_node_to_model_class_freshMapping(nms, name, typ) ==
    LET var == [name |-> name,
                type |-> typ,
                info |-> ModelInfo,
                fullname |-> ModelInfo.fullname \o "." \o name,
                is_initialized_in_class |-> TRUE,
                is_inferred |-> TRUE]
    IN  (name :> [kind |-> "MDEF", node |-> var, plugin_generated |-> TRUE])

\* the injection keeping a symbol already bound to the name (setdefault)
add_new_node_to_model_class_keepExisting(nms, name, typ) ==
    LET var == [name |-> name,
                type |-> typ,
                info |-> ModelInfo,
                fullname |-> ModelInfo.fullname \o "." \o name,
                is_initialized_in_class |-> TRUE,
                is_inferred |-> TRUE]
    IN  nms @@ (name :> [kind |-> "MDEF", node |-> var, plugin_generated |-> TRUE])

\* the injection naming the variable without its class
add_new_node_to_model_class_bareFullname(nms, name, typ) ==
    LET var == [name |-> name,
                type |-> typ,
                info |-> ModelInfo,
                fullname |-> name,
                is_initialized_in_class |-> TRUE,
                is_inferred |-> TRUE]
    IN  (name :> [kind |-> "MDEF", node |-> var, plugin_generated |-> TRUE]) @@ nms

add_new_node_to_model_class(nms, name, typ) ==
    LET var == [name |-> name,
                type |-> typ,
                info |-> ModelInfo,
                fullname |-> ModelInfo.fullname \o "." \o name,
                is_initialized_in_class |-> TRUE,
                is_inferred |-> TRUE]
    IN  (name :> [kind |-> "MDEF", node |-> var, plugin_generated |-> TRUE]) @@ nms

\* the presence test on the class's own mapping only
has_readable_member_ownNames(nms, base, name) == name \in DOMAIN nms

\* TypeInfo.has_readable_member: the class's own mapping, then its bases
has_readable_member(nms, base, name) == name \in DOMAIN nms \/ name \in base

\* what run() of an initializer leaves behind: the class's mapping, the
\* exception it ended with, and the full names it looked up, in order
RunResult(nms, exc, looked) == [names |-> nms, exc |-> exc, lookups |-> looked]

\* ------------------------------------------------------------------------
\* InjectAnyAsBaseForNestedMeta
\* ------------------------------------------------------------------------
get_nested_meta_node_for_current_class(m) == m

\* run() comparing the flag instead of assigning it
InjectAnyAsBaseForNestedMeta_run_noAssignment(m) ==
    LET meta_node == get_nested_meta_node_for_current_class(m)
    IN  IF meta_node = None
        THEN m
        ELSE meta_node

InjectAnyAsBaseForNestedMeta_run(m) ==
    LET meta_node == get_nested_meta_node_for_current_class(m)
    IN  IF meta_node = None
        THEN m
        ELSE [meta_node EXCEPT !.fallback_to_any = TRUE]

\* ------------------------------------------------------------------------
\* AddDefaultPrimaryKey
\* ------------------------------------------------------------------------
AddDefaultPrimaryKey_run(nms, st, mc, base) ==
    IF mc = None
    THEN RunResult(nms, NoException, <<>>)
    ELSE LET auto_field == mc.auto_field
         IN  IF auto_field # None /\ ~has_readable_member(nms, base, auto_field.attname)
             THEN LET auto_field_fullname == get_class_fullname(auto_field.cls)
                      r == lookup_typeinfo_or_incomplete_defn_error(st, auto_field_fullname)
                  IN  IF r.exc # NoException
                      THEN RunResult(nms, r.exc, <<auto_field_fullname>>)
                      ELSE LET d == get_field_descriptor_types(r.node, FALSE)
                           IN  RunResult(
                                   add_new_node_to_model_class(nms, auto_field.attname,
                                       Instance(r.node, <<d[1], d[2]>>)),
                                   NoException, <<auto_field_fullname>>)
             ELSE RunResult(nms, NoException, <<>>)

\* ------------------------------------------------------------------------
\* AddRelatedModelsId
\* ------------------------------------------------------------------------

\* the shadow id typed with the nullability of the related primary key
RelatedIdType_nullabilityOfPrimaryKey(field, rel_primary_key_field, field_info) ==
    LET is_nullable == get_field_nullability(rel_primary_key_field)
        d == get_field_descriptor_types(field_info, is_nullable)
    IN  Instance(field_info, <<d[1], d[2]>>)

\* type of the shadow id of a foreign key whose related primary key is
\* rel_primary_key_field and resolved to field_info
RelatedIdType(field, rel_primary_key_field, field_info) ==
    LET is_nullable == get_field_nullability(field)
        d == get_field_descriptor_types(field_info, is_nullable)
    IN  Instance(field_info, <<d[1], d[2]>>)

\* the loop taking every field for a foreign key
isinstance_ForeignKey_anyField(field) == TRUE

\* isinstance(field, ForeignKey)
isinstance_ForeignKey(field) == field.isForeignKey

\* the loop over model_cls._meta.get_fields(), from its i-th field on
RECURSIVE RelatedIdsFrom(_, _, _, _, _)
RelatedIdsFrom(nms, st, fields, i, looked) ==
    IF i > Len(fields)
    THEN RunResult(nms, NoException, looked)
    ELSE LET field == fields[i]
         IN  IF isinstance_ForeignKey(field)
             THEN LET rel_primary_key_field == get_primary_key_field(field.related_model)
                      r == lookup_field_typeinfo_or_incomplete_defn_error(st, rel_primary_key_field)
                      looked2 == Append(looked, get_class_fullname(rel_primary_key_field.cls))
                  IN  IF r.exc # NoException
                      THEN RunResult(nms, r.exc, looked2)
                      ELSE RelatedIdsFrom(
                               add_new_node_to_model_class(nms, field.attname,
                                   RelatedIdType(field, rel_primary_key_field, r.node)),
                               st, fields, i + 1, looked2)
             ELSE RelatedIdsFrom(nms, st, fields, i + 1, looked)

\* run() committing its shadow ids only when every lookup succeeded
AddRelatedModelsId_run_allOrNothing(nms, st, mc) ==
    IF mc = None
    THEN RunResult(nms, NoException, <<>>)
    ELSE LET r == RelatedIdsFrom(nms, st, mc.fields, 1, <<>>)
         IN  IF r.exc # NoException
             THEN RunResult(nms, r.exc, r.lookups)
             ELSE r

AddRelatedModelsId_run(nms, st, mc) ==
    IF mc = None
    THEN RunResult(nms, NoException, <<>>)
    ELSE RelatedIdsFrom(nms, st, mc.fields, 1, <<>>)

\* ------------------------------------------------------------------------
\* AddManagers
\* ------------------------------------------------------------------------
\* the manager type left without its model argument
ManagerType_noModelArgument(manager_info) == Instance(manager_info, <<>>)

ManagerType(manager_info) == Instance(manager_info, <<Instance(ModelInfo, <<>>)>>)

\* is the name already a symbol of the class (info.names)
NameInClass(nms, name) == name \in DOMAIN nms

\* the tail of run(): add _default_manager
AddDefaultManager(nms, st, mc, looked) ==
    IF ~NameInClass(nms, "_default_manager")
    THEN LET default_manager_fullname == get_class_fullname(mc.default_manager.cls)
             r == lookup_typeinfo_or_incomplete_defn_error(st, default_manager_fullname)
             looked2 == Append(looked, default_manager_fullname)
         IN  IF r.exc # NoException
             THEN RunResult(nms, r.exc, looked2)
             ELSE RunResult(
                      add_new_node_to_model_class(nms, "_default_manager", ManagerType(r.node)),
                      NoException, looked2)
    ELSE RunResult(nms, NoException, looked)

\* the loop over model_cls._meta.managers_map.items(), from its i-th item
\* on, followed by the tail
RECURSIVE ManagersFrom(_, _, _, _, _)
ManagersFrom(nms, st, mc, i, looked) ==
    IF i > Len(mc.managers_map)
    THEN AddDefaultManager(nms, st, mc, looked)
    ELSE LET manager_name == mc.managers_map[i].name
             manager == mc.managers_map[i]
         IN  IF ~NameInClass(nms, manager_name)
             THEN LET manager_fullname == get_class_fullname(manager.cls)
                      r == lookup_typeinfo_or_incomplete_defn_error(st, manager_fullname)
                      looked2 == Append(looked, manager_fullname)
                  IN  IF r.exc # NoException
                      THEN RunResult(nms, r.exc, looked2)
                      ELSE ManagersFrom(
                               add_new_node_to_model_class(nms, manager_name, ManagerType(r.node)),
                               st, mc, i + 1, looked2)
             ELSE ManagersFrom(nms, st, mc, i + 1, looked)

\* run() falling through to the _default_manager block, with the stock
\* Manager, when there is no runtime model
AddManagers_run_noModelCheck(nms, st, mc) ==
    IF mc = None
    THEN AddDefaultManager(nms, st, [default_manager |-> [cls |-> ManagerCls]], <<>>)
    ELSE ManagersFrom(nms, st, mc, 1, <<>>)

AddManagers_run(nms, st, mc) ==
    IF mc = None
    THEN RunResult(nms, NoException, <<>>)
    ELSE ManagersFrom(nms, st, mc, 1, <<>>)

\* ------------------------------------------------------------------------
\* process_model_class
\* ------------------------------------------------------------------------
\* the list with the managers moved before the foreign-key ids
initializers_managersFirst ==
    <<"InjectAnyAsBaseForNestedMeta",
      "AddDefaultPrimaryKey",
      "AddManagers",
      "AddRelatedModelsId">>

initializers ==
    <<"InjectAnyAsBaseForNestedMeta",
      "AddDefaultPrimaryKey",
      "AddRelatedModelsId",
      "AddManagers">>

Initializers == {initializers[i] : i \in 1..Len(initializers)}

\* the except clause with the test of final_iteration inverted
ExceptClause_deferOnFinal(exc, final) ==
    [caught |-> exc = IncompleteDefnException,
     defer |-> exc = IncompleteDefnException /\ final]

\* the except clause re-raising on the final iteration
ExceptClause_reraiseOnFinal(exc, final) ==
    [caught |-> exc = IncompleteDefnException /\ ~final,
     defer |-> exc = IncompleteDefnException /\ ~final]

\* defer() in a finally clause: called whether or not run() raised
ExceptClause_finally(exc, final) ==
    [caught |-> exc = IncompleteDefnException,
     defer |-> ~final]

\* the except clause around one initializer: is the exception caught, and
\* is ctx.api.defer() called
ExceptClause(exc, final) ==
    [caught |-> exc = IncompleteDefnException,
     defer |-> exc = IncompleteDefnException /\ ~final]

\* the try statement placed around the loop: the first exception caught
\* ends the pass
AfterInitializer_tryAroundLoop(exc, caught, i) ==
    IF exc # NoException
    THEN (IF caught THEN "returned" ELSE "propagated")
    ELSE IF i = Len(initializers) THEN "returned"
    ELSE "running"

\* where process_model_class is after the i-th initializer ended with exc:
\* an exception not caught leaves the function, otherwise the loop goes on
\* to the next initializer or the function returns after the last
AfterInitializer(exc, caught, i) ==
    IF exc # NoException /\ ~caught THEN "propagated"
    ELSE IF i = Len(initializers) THEN "returned"
    ELSE "running"

\* ------------------------------------------------------------------------
\* State
\* ------------------------------------------------------------------------
VARIABLES
    model_cls,        \* what django_context.get_model_class_by_fullname returns
    base_names,       \* members readable through the class's base classes
    symtab,           \* the checker's global symbol table, by full name
    names,            \* model_classdef.info.names
    meta,             \* the nested Meta node of the class, or None
    final_iteration,  \* ctx.api.final_iteration
    deferCalls,       \* calls of ctx.api.defer() in the current pass
    pc,               \* "idle", "running", "returned", "propagated", "finished"
    idx,              \* position in initializers of the initializer to run
    passNo,           \* passes started so far
    raisedBy,         \* initializers that raised in the current pass
    lookups,          \* full names each initializer looked up in the pass
    startNames,       \* names when the current pass started
    preNames,         \* names before the initializer that ran last
    prevRaised,       \* initializers that raised in the pass before
    symChanged,       \* symtab was rebound since the pass before returned
    resolvedBefore,   \* full names bound to a TypeInfo in some earlier pass
    ran               \* initializers run so far in the current pass, in order

vars == <<model_cls, base_names, symtab, names, meta, final_iteration, deferCalls,
          pc, idx, passNo, raisedBy, lookups, startNames, preNames, prevRaised,
          symChanged, resolvedBefore, ran>>

MetaNode == [kind |-> "TypeInfo", fullname |-> ModelFullname \o ".Meta", fallback_to_any |-> FALSE]

NoLookups == [i \in Initializers |-> <<>>]

InitWith(mc, declared, base, m) ==
    /\ model_cls = mc
    /\ base_names = base
    /\ symtab = [fn \in Fullnames |-> None]
    /\ names = DeclaredNames(declared)
    /\ meta = m
    /\ final_iteration = FALSE
    /\ deferCalls = 0
    /\ pc = "idle"
    /\ idx = 1
    /\ passNo = 0
    /\ raisedBy = {}
    /\ lookups = NoLookups
    /\ startNames = DeclaredNames(declared)
    /\ preNames = DeclaredNames(declared)
    /\ prevRaised = {}
    /\ symChanged = FALSE
    /\ resolvedBefore = {}
    /\ ran = <<>>

\* classes that vary in their fields
InitFields ==
    \E mc \in FieldModels, declared \in {{}, {"first_id"}} :
        InitWith(mc, declared, {}, None)

\* classes that vary in their managers
InitManagers ==
    \E mc \in ManagerModels, declared \in {{}, {"objects"}, {"_default_manager"}} :
        InitWith(mc, declared, {}, None)

\* classes that vary in what they declare and inherit
InitDeclared ==
    \E a \in {None, AutoField}, declared \in {{}, {"id"}},
       base \in {{}, {"id", "objects"}}, m \in {None, MetaNode} :
        InitWith(RuntimeModel(a, <<>>, StdManagers, 1), declared, base, m)

\* classes the reflection handle has no runtime model for
InitNoModel ==
    \E declared \in {{}, {"id"}}, m \in {None, MetaNode} :
        InitWith(None, declared, {}, m)

Init == InitFields \/ InitManagers \/ InitDeclared \/ InitNoModel

\* ------------------------------------------------------------------------
\* The checker
\* ------------------------------------------------------------------------

\* full names the injectors of a runtime model can ask the checker about
Dependencies(mc) ==
    IF mc = None
    THEN {}
    ELSE (IF mc.auto_field = None THEN {} ELSE {get_class_fullname(mc.auto_field.cls)})
         \cup {get_class_fullname(get_primary_key_field(mc.fields[i].related_model).cls) :
                   i \in {j \in 1..Len(mc.fields) : mc.fields[j].isForeignKey}}
         \cup {get_class_fullname(mc.managers_map[i].cls) : i \in 1..Len(mc.managers_map)}
         \cup {get_class_fullname(mc.default_manager.cls)}

\* is the full name bound to a type definition
IsTypeInfo(st, fn) == st[fn] # None /\ st[fn].kind = "TypeInfo"

\* between two passes the checker binds, rebinds or unbinds a full name the
\* class depends on
CheckerBind ==
    /\ pc = "idle"
    /\ \E fn \in Dependencies(model_cls) :
        \E node \in Nodes(fn) :
            /\ symtab[fn] # node
            /\ symtab' = [symtab EXCEPT ![fn] = node]
    /\ symChanged' = TRUE
    /\ UNCHANGED <<model_cls, base_names, names, meta, final_iteration, deferCalls,
                   pc, idx, passNo, raisedBy, lookups, startNames, preNames, prevRaised,
                   resolvedBefore, ran>>

\* the checker reaches the class definition in a pass and calls the hook
StartPass ==
    /\ pc = "idle"
    /\ passNo < MaxPasses
    /\ \E final \in BOOLEAN : final_iteration' = final
    /\ pc' = "running"
    /\ idx' = 1
    /\ passNo' = passNo + 1
    /\ deferCalls' = 0
    /\ prevRaised' = raisedBy
    /\ raisedBy' = {}
    /\ lookups' = NoLookups
    /\ startNames' = names
    /\ preNames' = names
    /\ ran' = <<>>
    /\ UNCHANGED <<model_cls, base_names, symtab, names, meta, symChanged,
                   resolvedBefore>>

\* the checker goes on after the hook returned; the final pass is the last
CheckerResume ==
    /\ pc = "returned"
    /\ pc' = IF final_iteration THEN "finished" ELSE "idle"
    /\ symChanged' = FALSE
    /\ resolvedBefore' = resolvedBefore \cup {fn \in Fullnames : IsTypeInfo(symtab, fn)}
    /\ UNCHANGED <<model_cls, base_names, symtab, names, meta, final_iteration,
                   deferCalls, idx, passNo, raisedBy, lookups, startNames, preNames,
                   prevRaised, ran>>

\* ------------------------------------------------------------------------
\* One iteration of the loop of process_model_class
\* ------------------------------------------------------------------------
Iteration(name, res) ==
    LET h == ExceptClause(res.exc, final_iteration)
    IN  /\ pc = "running"
        /\ idx \in 1..Len(initializers)
        /\ initializers[idx] = name
        /\ names' = res.names
        /\ preNames' = names
        /\ lookups' = [lookups EXCEPT ![name] = res.lookups]
        /\ raisedBy' = IF res.exc # NoException THEN raisedBy \cup {name} ELSE raisedBy
        /\ deferCalls' = IF h.defer THEN deferCalls + 1 ELSE deferCalls
        /\ pc' = AfterInitializer(res.exc, h.caught, idx)
        /\ idx' = idx + 1
        /\ ran' = Append(ran, name)
        /\ UNCHANGED <<model_cls, base_names, symtab, final_iteration, passNo,
                       startNames, prevRaised, symChanged, resolvedBefore>>

RunNestedMeta ==
    /\ Iteration("InjectAnyAsBaseForNestedMeta", RunResult(names, NoException, <<>>))
    /\ meta' = InjectAnyAsBaseForNestedMeta_run(meta)

RunDefaultPrimaryKey ==
    /\ Iteration("AddDefaultPrimaryKey",
                 AddDefaultPrimaryKey_run(names, symtab, model_cls, base_names))
    /\ UNCHANGED meta

RunRelatedModelsId ==
    /\ Iteration("AddRelatedModelsId", AddRelatedModelsId_run(names, symtab, model_cls))
    /\ UNCHANGED meta

RunManagers ==
    /\ Iteration("AddManagers", AddManagers_run(names, symtab, model_cls))
    /\ UNCHANGED meta

Next ==
    \/ CheckerBind
    \/ StartPass
    \/ CheckerResume
    \/ RunNestedMeta
    \/ RunDefaultPrimaryKey
    \/ RunRelatedModelsId
    \/ RunManagers

Spec == Init /\ [][Next]_vars

\* the checker's fixed-point iteration ends: the last pass it makes is the
\* final iteration
StartPassBounded ==
    /\ StartPass
    /\ passNo + 1 = MaxPasses => final_iteration'

\* the checker makes another pass over a class that asked to be deferred
Reinvoke ==
    /\ deferCalls > 0
    /\ StartPassBounded

\* the checker's passes only add definitions: a full name it has bound stays
\* bound as it is
CheckerDefine ==
    /\ CheckerBind
    /\ \A fn \in Fullnames : symtab[fn] # None => symtab'[fn] = symtab[fn]

NextLive ==
    \/ CheckerDefine
    \/ StartPassBounded
    \/ CheckerResume
    \/ RunNestedMeta
    \/ RunDefaultPrimaryKey
    \/ RunRelatedModelsId
    \/ RunManagers

\* process_model_class is synchronous and runs to its end once called; the
\* checker goes on after it returned and comes back to a deferred class
LiveSpec ==
    /\ Init
    /\ [][NextLive]_vars
    /\ WF_vars(RunNestedMeta)
    /\ WF_vars(RunDefaultPrimaryKey)
    /\ WF_vars(RunRelatedModelsId)
    /\ WF_vars(RunManagers)
    /\ WF_vars(CheckerResume)
    /\ WF_vars(Reinvoke)

\* ------------------------------------------------------------------------
\* Properties
\* ------------------------------------------------------------------------

\* the initializer has run in the pass that is under way or just returned
HasRun(name) ==
    /\ pc \in {"running", "returned"}
    /\ \E j \in 1..Len(initializers) : j < idx /\ initializers[j] = name

\* the initializer is the one that ran last
JustRan(name) ==
    /\ pc \in {"running", "returned"}
    /\ idx > 1
    /\ initializers[idx - 1] = name

PassReturned == pc = "returned"

\* C1: when a pass of process_model_class returns, defer() was called in it
\* if and only if some initializer raised IncompleteDefnException and the
\* pass is not the final iteration; on the final iteration no defer() is made.
C1_DeferIffRaisedAndNotFinal ==
    PassReturned =>
        /\ (deferCalls > 0) <=> (raisedBy # {} /\ ~final_iteration)
        /\ final_iteration => deferCalls = 0

C1_Witness ==
    /\ PassReturned
    /\ raisedBy # {}
    /\ ~final_iteration
    /\ deferCalls > 0

\* C2: IncompleteDefnException never leaves process_model_class: whatever
\* initializers raise, in a final pass or not, the loop goes on and the
\* call returns normally.
C2_IncompleteNeverPropagates ==
    /\ pc # "propagated"
    /\ (pc = "running" /\ raisedBy # {}) => idx \in 2..Len(initializers)

C2_Witness ==
    /\ PassReturned
    /\ final_iteration
    /\ raisedBy = {"AddDefaultPrimaryKey", "AddRelatedModelsId", "AddManagers"}

\* foreign-key fields of a runtime model, by position in get_fields()
ForeignKeys(mc) == {i \in 1..Len(mc.fields) : mc.fields[i].isForeignKey}

\* full name of the class of the related model's primary-key field
DependencyOf(field) ==
    get_class_fullname(get_primary_key_field(field.related_model).cls)

\* the name is bound in both mappings to the same symbol, or in neither
SameBinding(a, b, n) ==
    /\ n \in DOMAIN a <=> n \in DOMAIN b
    /\ n \in DOMAIN a => a[n] = b[n]

\* the first pass in which the full name is bound to a type definition,
\* after a first pass in which it was not
FirstResolvedNow(fn) ==
    /\ passNo > 1
    /\ fn \notin resolvedBefore
    /\ IsTypeInfo(symtab, fn)

\* C3 as stated: a foreign key whose related primary-key type is unresolved
\* in pass 1 gets no shadow id in pass 1 and (when pass 1 is not final) a
\* deferral is requested; the shadow id is present at the end of the first
\* pass in which that type resolves.
C3_Original ==
    (PassReturned /\ model_cls # None) =>
        \A i \in ForeignKeys(model_cls) :
            LET f == model_cls.fields[i]
            IN  /\ (passNo = 1 /\ ~IsTypeInfo(symtab, DependencyOf(f))) =>
                       /\ SameBinding(names, startNames, f.attname)
                       /\ ~final_iteration => deferCalls > 0
                /\ FirstResolvedNow(DependencyOf(f)) => f.attname \in DOMAIN names

\* C3 (amended): as C3, but the shadow id of a foreign key is present at the
\* end of the first pass in which its own related primary-key type and those
\* of all foreign keys iterated before it resolve.
C3_DeferredThenInjected ==
    (PassReturned /\ model_cls # None) =>
        \A i \in ForeignKeys(model_cls) :
            LET f == model_cls.fields[i]
            IN  /\ (passNo = 1 /\ ~IsTypeInfo(symtab, DependencyOf(f))) =>
                       /\ SameBinding(names, startNames, f.attname)
                       /\ ~final_iteration => deferCalls > 0
                /\ (/\ FirstResolvedNow(DependencyOf(f))
                    /\ \A j \in ForeignKeys(model_cls) :
                           j < i => IsTypeInfo(symtab, DependencyOf(model_cls.fields[j])))
                       => f.attname \in DOMAIN names

C3_Witness ==
    /\ PassReturned
    /\ model_cls # None
    /\ "AddRelatedModelsId" \in prevRaised
    /\ \E i \in ForeignKeys(model_cls) :
           /\ FirstResolvedNow(DependencyOf(model_cls.fields[i]))
           /\ model_cls.fields[i].attname \notin DOMAIN startNames
           /\ model_cls.fields[i].attname \in DOMAIN names

\* C4: no step of any initializer changes or removes the symbol bound to a
\* name that was already in the class's mapping before the step.
C4_NeverOverwrites ==
    [][\A n \in DOMAIN names : n \in DOMAIN names' /\ names'[n] = names[n]]_vars

\* C5: a pass that follows a pass in which no initializer raised, with the
\* symbol table unchanged in between, returns with the class's mapping equal
\* to what it was when the pass started, and with no deferral requested.
C5_Idempotent ==
    (PassReturned /\ passNo > 1 /\ prevRaised = {} /\ ~symChanged) =>
        /\ names = startNames
        /\ deferCalls = 0

C5_Witness ==
    /\ PassReturned
    /\ passNo > 1
    /\ prevRaised = {}
    /\ ~symChanged
    /\ {"id", "first_id", "objects", "_default_manager"} \subseteq DOMAIN names
    /\ \A n \in DOMAIN names : names[n].plugin_generated

\* the expected manager type: the manager's class with the model
\* class as its one argument
ExpectedManagerType(cls) ==
    [info |-> get_class_fullname(cls),
     args |-> <<[info |-> ModelFullname, args |-> <<>>]>>]

ManagersInjected ==
    /\ \A i \in 1..Len(model_cls.managers_map) :
           LET m == model_cls.managers_map[i]
           IN  m.name \notin DOMAIN preNames =>
                   /\ m.name \in DOMAIN names
                   /\ names[m.name].node.type = ExpectedManagerType(m.cls)
    /\ "_default_manager" \in DOMAIN names
    /\ "_default_manager" \in DOMAIN preNames =>
           names["_default_manager"] = preNames["_default_manager"]

\* C6 as stated: after every pass on a class with a runtime model, each
\* manager name that was not a symbol of the class is bound to the manager's
\* type with the model class as argument, and _default_manager is present
\* (the existing symbol being kept when there was one).
C6_Original ==
    (PassReturned /\ model_cls # None) => ManagersInjected

\* C6 (amended): the same, after every pass in which the manager injector
\* returned without raising the incomplete signal.
C6_ManagersInjected ==
    (PassReturned /\ model_cls # None /\ "AddManagers" \notin raisedBy) =>
        ManagersInjected

C6_Witness ==
    /\ PassReturned
    /\ model_cls # None
    /\ "AddManagers" \notin raisedBy
    /\ DOMAIN preNames = {}
    /\ {"objects", "published", "_default_manager"} \subseteq DOMAIN names

\* the descriptor types of a field type with the given nullability
ExpectedDescriptors(fn, nullable) ==
    <<[access |-> "set", of |-> fn, optional |-> nullable],
      [access |-> "get", of |-> fn, optional |-> nullable]>>

\* C7: once the foreign-key injector has returned without raising, every
\* foreign-key field f has a member f.attname typed from the type definition
\* of the related model's primary-key field, with the nullability of f.
C7_ShadowIdTyped ==
    (HasRun("AddRelatedModelsId") /\ "AddRelatedModelsId" \notin raisedBy
         /\ model_cls # None) =>
        \A i \in ForeignKeys(model_cls) :
            LET f == model_cls.fields[i]
            IN  /\ f.attname \in DOMAIN names
                /\ names[f.attname].node.type =
                       [info |-> DependencyOf(f),
                        args |-> ExpectedDescriptors(DependencyOf(f), f.null)]

C7_Witness ==
    /\ JustRan("AddRelatedModelsId")
    /\ "AddRelatedModelsId" \notin raisedBy
    /\ model_cls # None
    /\ \E i \in ForeignKeys(model_cls) :
           /\ model_cls.fields[i].null
           /\ model_cls.fields[i].attname \notin DOMAIN preNames
           /\ model_cls.fields[i].attname \in DOMAIN names
    /\ \E i \in ForeignKeys(model_cls) : ~model_cls.fields[i].null

\* C8: a class with an auto-generated primary key and no readable member of
\* its attribute name has, after a pass in which the field's class resolves,
\* a member of that name typed as the field type with non-nullable
\* descriptors; when a readable member of the name exists, the primary-key
\* injector looks nothing up and injects nothing.
C8_DefaultPrimaryKey ==
    model_cls # None /\ model_cls.auto_field # None =>
        LET auto_field == model_cls.auto_field
            fn == get_class_fullname(auto_field.cls)
        IN  /\ (/\ PassReturned
                /\ auto_field.attname \notin DOMAIN startNames \cup base_names
                /\ IsTypeInfo(symtab, fn)) =>
                   /\ auto_field.attname \in DOMAIN names
                   /\ names[auto_field.attname].node.type =
                          [info |-> fn, args |-> ExpectedDescriptors(fn, FALSE)]
            /\ (/\ JustRan("AddDefaultPrimaryKey")
                /\ auto_field.attname \in DOMAIN preNames \cup base_names) =>
                   /\ names = preNames
                   /\ lookups["AddDefaultPrimaryKey"] = <<>>

C8_Witness ==
    /\ PassReturned
    /\ model_cls # None
    /\ model_cls.auto_field # None
    /\ "id" \notin DOMAIN startNames \cup base_names
    /\ "id" \in DOMAIN names
    /\ names["id"].plugin_generated

\* C9: when the reflection handle has no runtime model for the class, a pass
\* leaves the class's mapping as it was, looks nothing up, raises no
\* incomplete signal and requests no deferral.
C9_NoModelNoOp ==
    (PassReturned /\ model_cls = None) =>
        /\ names = startNames
        /\ raisedBy = {}
        /\ deferCalls = 0
        /\ lookups = NoLookups

C9_Witness ==
    /\ PassReturned
    /\ model_cls = None
    /\ names = startNames
    /\ meta # None
    /\ meta.fallback_to_any

\* C10: no step removes a name from the class's mapping: the set of names
\* only grows, also in passes where an initializer raises and in the final
\* pass.
C10_NoRollback ==
    [][DOMAIN names \subseteq DOMAIN names']_vars

C10_Witness ==
    /\ PassReturned
    /\ passNo > 1
    /\ final_iteration
    /\ raisedBy # {}
    /\ \E n \in DOMAIN startNames : startNames[n].plugin_generated
    /\ DOMAIN startNames \subseteq DOMAIN names

\* the order the initializers are to run in
ExpectedOrder ==
    <<"InjectAnyAsBaseForNestedMeta", "AddDefaultPrimaryKey",
      "AddRelatedModelsId", "AddManagers">>

\* C11: in every pass the initializers run one after the other in the order
\* Meta-fallback, primary-key, foreign-key-ids, managers, each exactly once:
\* what has run so far is always a prefix of that order, and all of it when
\* the pass returns.
C11_FixedOrder ==
    /\ pc \in {"running", "returned"} =>
           /\ Len(ran) <= Len(ExpectedOrder)
           /\ ran = SubSeq(ExpectedOrder, 1, Len(ran))
    /\ PassReturned => ran = ExpectedOrder

C11_Witness ==
    /\ PassReturned
    /\ ran = ExpectedOrder
    /\ raisedBy = {"AddRelatedModelsId"}

\* C12: once the Meta-fallback injector has run on a class with a nested
\* Meta, the Meta node's fallback_to_any flag is true; a class without a
\* nested Meta never gets one; the injector never raises, looks nothing up
\* and leaves the class's mapping as it was.
C12_MetaFallback ==
    /\ [](/\ (HasRun("InjectAnyAsBaseForNestedMeta") /\ meta # None) =>
                 meta.fallback_to_any
          /\ "InjectAnyAsBaseForNestedMeta" \notin raisedBy
          /\ JustRan("InjectAnyAsBaseForNestedMeta") =>
                 /\ names = preNames
                 /\ lookups["InjectAnyAsBaseForNestedMeta"] = <<>>)
    /\ [][meta = None => meta' = None]_vars

C12_Witness ==
    /\ PassReturned
    /\ model_cls # None
    /\ meta # None
    /\ meta.fallback_to_any
    /\ names # startNames

\* every full name the injectors of the class look up is a type definition
AllResolved == \A fn \in Dependencies(model_cls) : IsTypeInfo(symtab, fn)

\* the primary key, every shadow id, every manager and _default_manager are
\* members of the class
AllSyntheticPresent ==
    /\ model_cls.auto_field # None =>
           model_cls.auto_field.attname \in DOMAIN names \cup base_names
    /\ \A i \in ForeignKeys(model_cls) : model_cls.fields[i].attname \in DOMAIN names
    /\ \A i \in 1..Len(model_cls.managers_map) :
           model_cls.managers_map[i].name \in DOMAIN names
    /\ "_default_manager" \in DOMAIN names

\* a member that was absent when the pass started and whose type is not
\* resolved in the pass is still absent
UnresolvedStayAbsent ==
    LET absent(n, cls) ==
            (n \notin DOMAIN startNames /\ ~IsTypeInfo(symtab, get_class_fullname(cls)))
                => n \notin DOMAIN names
    IN  /\ model_cls.auto_field # None =>
               absent(model_cls.auto_field.attname, model_cls.auto_field.cls)
        /\ \A i \in ForeignKeys(model_cls) :
               absent(model_cls.fields[i].attname,
                      get_primary_key_field(model_cls.fields[i].related_model).cls)
        /\ \A i \in 1..Len(model_cls.managers_map) :
               absent(model_cls.managers_map[i].name, model_cls.managers_map[i].cls)
        /\ absent("_default_manager", model_cls.default_manager.cls)

\* C13: with the checker coming back to a deferred class until its final
\* pass, a pass that requested a deferral is followed by a pass that requests
\* none; a pass in which every lookup resolves ends with all synthetic
\* members present and no deferral; the final pass ends with no deferral and
\* with the members whose type is unresolved still absent.
C13_PassesConverge ==
    /\ [](/\ (PassReturned /\ model_cls # None /\ AllResolved) =>
                 /\ AllSyntheticPresent
                 /\ deferCalls = 0
          /\ (PassReturned /\ final_iteration) =>
                 /\ deferCalls = 0
                 /\ model_cls # None => UnresolvedStayAbsent
          /\ pc = "finished" => deferCalls = 0)
    /\ (PassReturned /\ deferCalls > 0) ~> (PassReturned /\ deferCalls = 0)

C13_Witness ==
    /\ PassReturned
    /\ passNo > 1
    /\ final_iteration
    /\ prevRaised # {}
    /\ raisedBy = {"AddManagers"}
    /\ deferCalls = 0
    /\ "_default_manager" \notin DOMAIN names

\* C14: the foreign-key injector has no presence guard: whenever it returns
\* without raising, every foreign key's attname is bound to the
\* plugin-generated shadow id, whatever was bound to it before; the
\* primary-key and manager injectors leave every name already present alone.
C14_ForeignKeyUnguarded ==
    model_cls # None =>
        /\ (JustRan("AddRelatedModelsId") /\ "AddRelatedModelsId" \notin raisedBy) =>
               \A i \in ForeignKeys(model_cls) :
                   LET f == model_cls.fields[i]
                   IN  /\ f.attname \in DOMAIN names
                       /\ names[f.attname].plugin_generated
                       /\ names[f.attname].node.type.info = DependencyOf(f)
        /\ (JustRan("AddDefaultPrimaryKey") \/ JustRan("AddManagers")) =>
               \A n \in DOMAIN preNames : n \in DOMAIN names /\ names[n] = preNames[n]

C14_Witness ==
    /\ JustRan("AddRelatedModelsId")
    /\ "first_id" \in DOMAIN preNames
    /\ ~preNames["first_id"].plugin_generated
    /\ names["first_id"].plugin_generated

\* a symbol as the injection facility installs it for the name
InstalledProperly(sym, n) ==
    /\ sym.kind = "MDEF"
    /\ sym.plugin_generated
    /\ sym.node.name = n
    /\ sym.node.is_initialized_in_class
    /\ sym.node.is_inferred
    /\ sym.node.info = [kind |-> "TypeInfo", fullname |-> ModelFullname]
    /\ sym.node.fullname = ModelFullname \o "." \o n

\* C15: every symbol a step adds to the class's mapping or rebinds in it is a
\* member-level, plugin-generated symbol whose variable is initialized in
\* class, inferred, owned by the class being processed and named with the
\* class's full name, a dot and the member name.
C15_InstalledSymbols ==
    [][\A n \in DOMAIN names' :
           (n \notin DOMAIN names \/ names'[n] # names[n]) =>
               InstalledProperly(names'[n], n)]_vars

C15_Witness ==
    /\ JustRan("AddManagers")
    /\ "published" \notin DOMAIN preNames
    /\ "published" \in DOMAIN names
    /\ names["published"].node.fullname = "myapp.models.Book.published"
    /\ names["published"].node.is_inferred

\* C16: an initializer that raises does not end the pass: when the pass
\* returns every initializer has run, and in a pass that is not final the
\* number of defer() calls is the number of initializers that raised.
C16_RaiseDoesNotStopPass ==
    /\ PassReturned =>
           /\ Len(ran) = Len(ExpectedOrder)
           /\ {ran[i] : i \in 1..Len(ran)} = {ExpectedOrder[i] : i \in 1..Len(ExpectedOrder)}
    /\ (pc \in {"running", "returned"} /\ ~final_iteration) =>
           deferCalls = Cardinality(raisedBy)

C16_Witness ==
    /\ PassReturned
    /\ ~final_iteration
    /\ raisedBy = {"AddDefaultPrimaryKey", "AddRelatedModelsId"}
    /\ deferCalls = 2
    /\ "objects" \notin DOMAIN startNames
    /\ "objects" \in DOMAIN names

\* the least element of a non-empty set of positions
Least(S) == CHOOSE i \in S : \A j \in S : i <= j

\* C17: an initializer stops at its first failing lookup and undoes nothing:
\* when the foreign-key injector raised, the foreign keys before the first
\* one whose related primary-key type is unresolved have their shadow id
\* bound, and that one and all later ones are as before the injector ran;
\* when the lookup of a manager not yet on the class fails, the manager
\* injector raises there, with no lookup after it and _default_manager as
\* it was.
C17_AbortAtFirstFailure ==
    model_cls # None =>
        /\ (JustRan("AddRelatedModelsId") /\ "AddRelatedModelsId" \in raisedBy) =>
               LET failing == {i \in ForeignKeys(model_cls) :
                                   ~IsTypeInfo(symtab, DependencyOf(model_cls.fields[i]))}
               IN  /\ failing # {}
                   /\ \A i \in ForeignKeys(model_cls) :
                          LET f == model_cls.fields[i]
                          IN  IF i < Least(failing)
                              THEN /\ f.attname \in DOMAIN names
                                   /\ names[f.attname].plugin_generated
                                   /\ names[f.attname].node.type.info = DependencyOf(f)
                              ELSE SameBinding(names, preNames, f.attname)
        /\ JustRan("AddManagers") =>
               LET mm == model_cls.managers_map
                   failing == {i \in 1..Len(mm) :
                                   /\ mm[i].name \notin DOMAIN preNames
                                   /\ ~IsTypeInfo(symtab, get_class_fullname(mm[i].cls))}
                   looked == lookups["AddManagers"]
               IN  failing # {} =>
                       /\ "AddManagers" \in raisedBy
                       /\ SameBinding(names, preNames, "_default_manager")
                       /\ Len(looked) = Cardinality({j \in 1..Least(failing) :
                                                        mm[j].name \notin DOMAIN preNames})
                       /\ looked[Len(looked)] = get_class_fullname(mm[Least(failing)].cls)

C17_Witness ==
    /\ JustRan("AddRelatedModelsId")
    /\ "AddRelatedModelsId" \in raisedBy
    /\ "first_id" \notin DOMAIN preNames
    /\ "first_id" \in DOMAIN names
    /\ "second_id" \notin DOMAIN names

\* the names the injectors of a runtime model may bind
SyntheticNames(mc) ==
    IF mc = None
    THEN {}
    ELSE (IF mc.auto_field = None THEN {} ELSE {mc.auto_field.attname})
         \cup {mc.fields[i].attname : i \in ForeignKeys(mc)}
         \cup {mc.managers_map[i].name : i \in 1..Len(mc.managers_map)}
         \cup {"_default_manager"}

\* C18: a pass adds or rebinds only the auto primary key's attname, the
\* attnames of the foreign keys, the keys of the manager map and
\* _default_manager; every other name is bound at the return of the pass as
\* it was at its start, and no step of a pass changes the checker's symbol
\* table.
C18_Frame ==
    /\ [](PassReturned =>
              \A n \in DOMAIN names \cup DOMAIN startNames :
                  n \notin SyntheticNames(model_cls) => SameBinding(names, startNames, n))
    /\ [][pc = "running" => symtab' = symtab]_vars

C18_Witness ==
    /\ PassReturned
    /\ model_cls # None
    /\ model_cls.auto_field = None
    /\ "id" \in DOMAIN startNames
    /\ names["id"] = startNames["id"]
    /\ {"objects", "_default_manager"} \subseteq DOMAIN names \ DOMAIN startNames

\* C19: a member of the auto primary key's attname inherited from a base
\* class suppresses the primary-key injector (no lookup, no injection), while
\* a manager name found only on a base class does not suppress the manager
\* injector: the manager is looked up and, unless the injector raises, bound
\* on the class itself.
C19_GuardScopes ==
    model_cls # None =>
        /\ (/\ JustRan("AddDefaultPrimaryKey")
            /\ model_cls.auto_field # None
            /\ model_cls.auto_field.attname \in base_names) =>
               /\ names = preNames
               /\ lookups["AddDefaultPrimaryKey"] = <<>>
               /\ "AddDefaultPrimaryKey" \notin raisedBy
        /\ JustRan("AddManagers") =>
               \A i \in 1..Len(model_cls.managers_map) :
                   LET m == model_cls.managers_map[i]
                   IN  (m.name \in base_names /\ m.name \notin DOMAIN preNames) =>
                           /\ lookups["AddManagers"] # <<>>
                           /\ "AddManagers" \notin raisedBy =>
                                  /\ m.name \in DOMAIN names
                                  /\ names[m.name].plugin_generated

C19_Witness ==
    /\ PassReturned
    /\ model_cls # None
    /\ model_cls.auto_field # None
    /\ base_names = {"id", "objects"}
    /\ "id" \notin DOMAIN names
    /\ "objects" \notin DOMAIN startNames
    /\ "objects" \in DOMAIN names

\* C20: the type lookup raises the incomplete signal exactly for a full name
\* that is absent from the symbol table or bound to a node that is not a
\* type definition, and otherwise returns the node bound to the name; in
\* every initializer all lookups before the last found a type definition,
\* and the initializer raised exactly when its last lookup did not; a first
\* lookup that fails leaves the class's mapping as it was.
C20_LookupRaisesIffNotTypeInfo ==
    /\ \A fn \in Fullnames :
           LET r == lookup_typeinfo_or_incomplete_defn_error(symtab, fn)
               bad == symtab[fn] = None \/ symtab[fn].kind # "TypeInfo"
           IN  /\ r.exc = (IF bad THEN "IncompleteDefnException" ELSE "NoException")
               /\ ~bad => r.node = symtab[fn]
    /\ \A x \in {"AddDefaultPrimaryKey", "AddRelatedModelsId", "AddManagers"} :
           HasRun(x) =>
               LET looked == lookups[x]
                   bad(fn) == symtab[fn] = None \/ symtab[fn].kind # "TypeInfo"
               IN  /\ \A i \in 1..Len(looked) : i < Len(looked) => ~bad(looked[i])
                   /\ x \in raisedBy <=> (looked # <<>> /\ bad(looked[Len(looked)]))
                   /\ (JustRan(x) /\ x \in raisedBy /\ Len(looked) = 1) => names = preNames

C20_Witness ==
    /\ JustRan("AddRelatedModelsId")
    /\ "AddRelatedModelsId" \in raisedBy
    /\ Len(lookups["AddRelatedModelsId"]) = 2
    /\ symtab[lookups["AddRelatedModelsId"][2]] = VarNode(lookups["AddRelatedModelsId"][2])

====
